---- MODULE Spec2Model ----
(***************************************************************************)
(* Model of sql_gen_flatten_json_cols.py: construct_flattened_sql and the  *)
(* module-level script that prints the statement and saves it to           *)
(* <table_id>_flattened.sql.                                               *)
(*                                                                         *)
(* Strings are sequences of code points, so that Python's ordinal string   *)
(* comparison, concatenation and str(int) are computed, not assumed.       *)
(***************************************************************************)
EXTENDS Integers, Sequences, FiniteSets, TLC

\* ------------------------------------------------------------------ bounds
MaxKeys == 2       \* members written in one sampled JSON text
MaxRuns == 2       \* times the script is run against the same table

\* ------------------------------------------------------- string constants
\* 'PROJECT_ID', 'DATASET_ID', 'TABLE_ID'
project_id == <<80, 82, 79, 74, 69, 67, 84, 95, 73, 68>>
dataset_id == <<68, 65, 84, 65, 83, 69, 84, 95, 73, 68>>
table_id == <<84, 65, 66, 76, 69, 95, 73, 68>>

\* Column names the catalog may declare: "a", "a_2", "b"
ColNames == { <<97>>, <<97, 95, 50>>, <<98>> }
\* Of these, the ones the catalog may declare with data_type = 'JSON'
JsonNames == { <<97>>, <<98>> }
\* Key carried by a nested document value: "n"
NestedKey == <<110>>

\* ------------------------------------------------------------- JSON values
\* A member value of a sampled document: a scalar, or a nested document
\* with one member of its own.
ScalarValue == [nested |-> FALSE, members |-> <<>>]
NestedValue == [nested |-> TRUE, members |-> << <<NestedKey, ScalarValue>> >>]
\* Members a sampled JSON text may list: "a": scalar, "a": {"n": scalar},
\* "B": scalar
Members == { << <<97>>, ScalarValue >>, << <<97>>, NestedValue >>, << <<66>>, ScalarValue >> }

SeqsUpTo(S, n) == UNION { [1..k -> S] : k \in 0..n }

\* The JSON text stored in a column: either text json.loads rejects, or an
\* object text listing members in written order (a key may be written twice).
Payloads ==
    {[ok |-> FALSE, members |-> <<>>]} \cup
    {[ok |-> TRUE, members |-> m] : m \in SeqsUpTo(Members, MaxKeys)}

\* json.loads on an object text: a dict keeps one entry per key, at the
\* position of the key's first appearance, holding the last value written.
DictSet(d, k, v) ==
    IF \E i \in DOMAIN d : d[i][1] = k
    THEN [i \in DOMAIN d |-> IF d[i][1] = k THEN <<k, v>> ELSE d[i]]
    ELSE Append(d, <<k, v>>)

RECURSIVE DictOf(_, _)
DictOf(members, d) ==
    IF members = <<>> THEN d
    ELSE DictOf(Tail(members), DictSet(d, Head(members)[1], Head(members)[2]))

json_loads(payload) == DictOf(payload.members, <<>>)

\* Faulty variant of keys: also descends into nested documents.
RECURSIVE AllKeys(_)
AllKeys(d) ==
    IF d = <<>> THEN <<>>
    ELSE <<Head(d)[1]>> \o AllKeys(Head(d)[2].members) \o AllKeys(Tail(d))

keys_flattening(json_data) == AllKeys(json_data)

\* line 73: list(json_data.keys())
keys(json_data) == [i \in DOMAIN json_data |-> json_data[i][1]]

\* --------------------------------------------------------- string helpers
\* Python's str < str: ordinal comparison of code points, shorter prefix first
RECURSIVE StrLess(_, _)
StrLess(s, t) ==
    IF t = <<>> THEN FALSE
    ELSE IF s = <<>> THEN TRUE
    ELSE IF Head(s) # Head(t) THEN Head(s) < Head(t)
    ELSE StrLess(Tail(s), Tail(t))

\* str(n) for n >= 0: decimal digits
RECURSIVE str(_)
str(n) == IF n < 10 THEN <<48 + n>> ELSE str(n \div 10) \o <<48 + (n % 10)>>

\* sep.join(items)
RECURSIVE join(_, _)
join(sep, items) ==
    IF items = <<>> THEN <<>>
    ELSE IF Len(items) = 1 THEN items[1]
    ELSE items[1] \o sep \o join(sep, Tail(items))

\* list.count(x)
count(list, x) == Cardinality({i \in DOMAIN list : list[i] = x})

\* ------------------------------------------------------------------ sorted
\* line 88: sorted() on a list of str, ascending, equal elements kept in order
RECURSIVE InsertSorted(_, _)
InsertSorted(x, s) ==
    IF s = <<>> THEN <<x>>
    ELSE IF StrLess(Head(s), x) THEN <<Head(s)>> \o InsertSorted(x, Tail(s))
    ELSE <<x>> \o s

RECURSIVE InsertionSort(_)
InsertionSort(s) == IF s = <<>> THEN <<>> ELSE InsertSorted(Head(s), InsertionSort(Tail(s)))

\* Faulty variants of sorted: descending order; no sorting at all.
RECURSIVE InsertSortedDesc(_, _)
InsertSortedDesc(x, s) ==
    IF s = <<>> THEN <<x>>
    ELSE IF StrLess(x, Head(s)) THEN <<Head(s)>> \o InsertSortedDesc(x, Tail(s))
    ELSE <<x>> \o s

RECURSIVE InsertionSortDesc(_)
InsertionSortDesc(s) ==
    IF s = <<>> THEN <<>> ELSE InsertSortedDesc(Head(s), InsertionSortDesc(Tail(s)))

sorted_unsorted(list) == list

sorted_descending(list) == InsertionSortDesc(list)

sorted(list) == InsertionSort(list)

\* ------------------------------------------------------ dedup-rename pass
\* line 94: the test that sends an element to the renaming branch
is_repeat(combined_columns, seen, col) ==
    count(combined_columns, col) > 1 /\ col \in DOMAIN seen

\* line 95: seen[col] += 1
seen_increment(seen, col) == [seen EXCEPT ![col] = @ + 1]

\* Faulty variant of suffixed: numbers by the count of prior occurrences.
suffixed_prior_count(seen, col) == col \o <<95>> \o str(seen[col] - 1)

\* line 96: f"{col}_{seen[col]}", read after the increment

suffixed(seen, col) == col \o <<95>> \o str(seen[col])

\* line 98: seen[col] = 1
seen_first(seen, col) ==
    [x \in (DOMAIN seen) \cup {col} |-> IF x = col THEN 1 ELSE seen[x]]

\* Faulty variant of bare: renames the first occurrence too.
bare_renamed(col) == col \o <<95, 48>>

\* line 99: the entry appended for an element not sent to the renaming branch

bare(col) == col

RECURSIVE DedupLoop(_, _, _, _)
DedupLoop(combined_columns, i, seen, final_cols) ==
    IF i > Len(combined_columns) THEN final_cols
    ELSE LET col == combined_columns[i] IN
         IF is_repeat(combined_columns, seen, col)
         THEN LET seen2 == seen_increment(seen, col) IN
              DedupLoop(combined_columns, i + 1, seen2,
                        Append(final_cols, suffixed(seen2, col)))
         ELSE DedupLoop(combined_columns, i + 1, seen_first(seen, col),
                        Append(final_cols, bare(col)))

\* Faulty variant of adjust_duplicates: drops repeats instead of renaming.
RECURSIVE DropRepeats(_, _)
DropRepeats(combined_columns, i) ==
    IF i > Len(combined_columns) THEN <<>>
    ELSE IF \E j \in 1..(i - 1) : combined_columns[j] = combined_columns[i]
         THEN DropRepeats(combined_columns, i + 1)
         ELSE <<combined_columns[i]>> \o DropRepeats(combined_columns, i + 1)

adjust_duplicates_dropping(combined_columns) == DropRepeats(combined_columns, 1)

\* lines 90-99
adjust_duplicates(combined_columns) == DedupLoop(combined_columns, 1, <<>>, <<>>)

\* ------------------------------------------------------ statement template
\* "SELECT ", ", ", " FROM `", ".", "`;"
SelectText == <<83, 69, 76, 69, 67, 84, 32>>
CommaText == <<44, 32>>
FromText == <<32, 70, 82, 79, 77, 32, 96>>
DotText == <<46>>
EndText == <<96, 59>>

QualifiedTable == project_id \o DotText \o dataset_id \o DotText \o table_id

format_sql(final_cols) ==
    SelectText \o join(CommaText, final_cols) \o FromText \o QualifiedTable \o EndText

\* "SQL saved to ", "_flattened.sql"
SavedText == <<83, 81, 76, 32, 115, 97, 118, 101, 100, 32, 116, 111, 32>>
FileSuffix == <<95, 102, 108, 97, 116, 116, 101, 110, 101, 100, 46, 115, 113, 108>>
file_name == table_id \o FileSuffix

\* ------------------------------------------------------- sampling outcome
\* json.loads(json_string) returns (rather than raising)
decodes(payload) == payload.ok

\* Faulty variants of row_outcome: no check for an empty result (rows[0]
\* raises); decoding errors caught and the column skipped.
row_outcome_unchecked(rows) ==
    IF rows = <<>> THEN "raise"
    ELSE IF ~decodes(rows[1]) THEN "raise" ELSE "extend"

row_outcome_swallowing(rows) ==
    IF rows = <<>> THEN "continue"
    ELSE IF ~decodes(rows[1]) THEN "continue" ELSE "extend"

\* lines 66-74: what one loop iteration does with the rows of its query
row_outcome(rows) ==
    IF rows = <<>> THEN "continue"
    ELSE IF ~decodes(rows[1]) THEN "raise" ELSE "extend"

\* ----------------------------------------------------------------- file IO
\* The file is the sequence of strings written since its last truncation.
\* Faulty variant of write_truncating: opens in append mode.
write_appending(old, text) == Append(old, text)

\* lines 115-116: open(file_name, 'w') truncates, then one write

write_truncating(old, text) == <<text>>

\* ------------------------------------------------------------------ state
VARIABLES
    columns,               \* the table's catalog: column name -> data type
    sample,                \* JSON column name -> rows its LIMIT 1 query returns
    pc,                    \* position of the running script
    run,                   \* number of the current run of the script
    json_cols,
    idx,                   \* position of the for loop over json_cols
    rows,
    new_columns,
    all_columns_in_table,
    combined_columns,
    final_columns,
    sql_string,            \* module-level sql_string ("" until returned)
    stdout,                \* lines printed by the current run
    file,                  \* TABLE_ID_flattened.sql in the working directory
    file_before            \* the file as it was when the current run started

vars == <<columns, sample, pc, run, json_cols, idx, rows, new_columns,
          all_columns_in_table, combined_columns, final_columns, sql_string,
          stdout, file, file_before>>

locals == <<json_cols, idx, rows, new_columns, all_columns_in_table,
            combined_columns, final_columns>>

table == <<columns, sample>>

JsonColsOf(cat) == {c \in DOMAIN cat : cat[c] = "JSON"}

Catalogs ==
    UNION { {cat \in [S -> {"JSON", "STRING"}] :
                \A c \in S : cat[c] = "JSON" => c \in JsonNames} : S \in SUBSET ColNames }

\* every order in which a query without ORDER BY may return the set S
Orders(S) ==
    {s \in [1..Cardinality(S) -> S] : \A i, j \in 1..Cardinality(S) : s[i] = s[j] => i = j}

Init ==
    /\ columns \in Catalogs
    /\ sample \in [JsonColsOf(columns) -> SeqsUpTo(Payloads, 1)]
    /\ pc = "start"
    /\ run = 1
    /\ json_cols = <<>>
    /\ idx = 1
    /\ rows = <<>>
    /\ new_columns = <<>>
    /\ all_columns_in_table = <<>>
    /\ combined_columns = <<>>
    /\ final_columns = <<>>
    /\ sql_string = <<>>
    /\ stdout = <<>>
    /\ file = <<>>
    /\ file_before = <<>>

\* ---------------------------------------------------------------- actions
\* lines 36-50: the JSON-column catalog query
QueryJsonColumns ==
    /\ pc = "start"
    /\ \/ /\ pc' = "failed"
          /\ UNCHANGED locals
       \/ /\ \E result \in Orders(JsonColsOf(columns)) : json_cols' = result
          /\ new_columns' = <<>>
          /\ idx' = 1
          /\ pc' = "loop"
          /\ UNCHANGED <<rows, all_columns_in_table, combined_columns, final_columns>>
    /\ UNCHANGED <<table, run, sql_string, stdout, file, file_before>>

\* lines 53-63: the sampling query of the loop's current column
SampleQuery ==
    /\ pc = "loop"
    /\ idx <= Len(json_cols)
    /\ \/ /\ pc' = "failed"
          /\ UNCHANGED rows
       \/ /\ rows' = sample[json_cols[idx]]
          /\ pc' = "sampled"
    /\ UNCHANGED <<table, run, json_cols, idx, new_columns, all_columns_in_table,
                   combined_columns, final_columns, sql_string, stdout, file,
                   file_before>>

\* lines 66-74: skip an empty result, else decode rows[0] and collect its keys
ProcessRows ==
    /\ pc = "sampled"
    /\ \/ /\ row_outcome(rows) = "continue"
          /\ idx' = idx + 1
          /\ pc' = "loop"
          /\ UNCHANGED new_columns
       \/ /\ row_outcome(rows) = "raise"
          /\ pc' = "failed"
          /\ UNCHANGED <<idx, new_columns>>
       \/ /\ row_outcome(rows) = "extend"
          /\ new_columns' = new_columns \o keys(json_loads(rows[1]))
          /\ idx' = idx + 1
          /\ pc' = "loop"
    /\ UNCHANGED <<table, run, json_cols, rows, all_columns_in_table,
                   combined_columns, final_columns, sql_string, stdout, file,
                   file_before>>

\* lines 77-85: the all-columns catalog query, after the loop has ended
QueryAllColumns ==
    /\ pc = "loop"
    /\ idx > Len(json_cols)
    /\ \/ /\ pc' = "failed"
          /\ UNCHANGED all_columns_in_table
       \/ /\ \E result \in Orders(DOMAIN columns) : all_columns_in_table' = result
          /\ pc' = "assemble"
    /\ UNCHANGED <<table, run, json_cols, idx, rows, new_columns, combined_columns,
                   final_columns, sql_string, stdout, file, file_before>>

\* lines 88-103 and 110: sort, rename duplicates, format, return
Assemble ==
    /\ pc = "assemble"
    /\ combined_columns' = sorted(all_columns_in_table \o new_columns)
    /\ final_columns' = adjust_duplicates(combined_columns')
    /\ sql_string' = format_sql(final_columns')
    /\ pc' = "print"
    /\ UNCHANGED <<table, run, json_cols, idx, rows, new_columns,
                   all_columns_in_table, stdout, file, file_before>>

\* line 111: print(sql_string)
PrintSql ==
    /\ pc = "print"
    /\ stdout' = Append(stdout, sql_string)
    /\ pc' = "write"
    /\ UNCHANGED <<table, run, locals, sql_string, file, file_before>>

\* lines 114-118: write the file, print the confirmation
SaveFile ==
    /\ pc = "write"
    /\ file' = write_truncating(file, sql_string)
    /\ stdout' = Append(stdout, SavedText \o file_name)
    /\ pc' = "done"
    /\ UNCHANGED <<table, run, locals, sql_string, file_before>>

\* The script is run again against the same table; the file stays on disk.
Rerun ==
    /\ pc \in {"done", "failed"}
    /\ run < MaxRuns
    /\ run' = run + 1
    /\ pc' = "start"
    /\ json_cols' = <<>>
    /\ idx' = 1
    /\ rows' = <<>>
    /\ new_columns' = <<>>
    /\ all_columns_in_table' = <<>>
    /\ combined_columns' = <<>>
    /\ final_columns' = <<>>
    /\ sql_string' = <<>>
    /\ stdout' = <<>>
    /\ file_before' = file
    /\ UNCHANGED <<table, file>>

Next ==
    \/ QueryJsonColumns
    \/ SampleQuery
    \/ ProcessRows
    \/ QueryAllColumns
    \/ Assemble
    \/ PrintSql
    \/ SaveFile
    \/ Rerun

Spec == Init /\ [][Next]_vars

\* ===================================================================
\* Properties
\* ===================================================================
\* the function has computed combined_columns, final_columns and the statement
Assembled == pc \in {"print", "write", "done"}

\* number of occurrences of list[i] at positions 1..i
OccurrenceNo(list, i) == Cardinality({j \in 1..i : list[j] = list[i]})

IsDigits(s) == s # <<>> /\ \A i \in DOMAIN s : s[i] \in 48..57

\* s is name followed by "_" and an integer
IsSuffixedForm(s, name) ==
    /\ Len(s) > Len(name) + 1
    /\ SubSeq(s, 1, Len(name)) = name
    /\ s[Len(name) + 1] = 95
    /\ IsDigits(SubSeq(s, Len(name) + 2, Len(s)))

\* The select list read back from a statement: the text between "SELECT "
\* and " FROM `PROJECT_ID.DATASET_ID.TABLE_ID`;", split at each ", ".
RECURSIVE SplitList(_, _)
SplitList(s, cur) ==
    IF s = <<>> THEN <<cur>>
    ELSE IF Len(s) >= 2 /\ s[1] = 44 /\ s[2] = 32
         THEN <<cur>> \o SplitList(SubSeq(s, 3, Len(s)), <<>>)
         ELSE SplitList(Tail(s), Append(cur, Head(s)))

StatementTail == FromText \o QualifiedTable \o EndText

WellFormedStatement(sql) ==
    /\ Len(sql) >= Len(SelectText) + Len(StatementTail)
    /\ SubSeq(sql, 1, Len(SelectText)) = SelectText
    /\ SubSeq(sql, Len(sql) - Len(StatementTail) + 1, Len(sql)) = StatementTail

SelectListOf(sql) ==
    LET body == SubSeq(sql, Len(SelectText) + 1, Len(sql) - Len(StatementTail))
    IN  IF body = <<>> THEN <<>> ELSE SplitList(body, <<>>)

\* top-level keys of a JSON text, as a set
TopLevelKeys(payload) == {payload.members[i][1] : i \in DOMAIN payload.members}

\* the names of the table: how many times each is declared or discovered
Contributes(c, n) ==
    sample[c] # <<>> /\ sample[c][1].ok /\ n \in TopLevelKeys(sample[c][1])

NameCount(n) ==
    (IF n \in DOMAIN columns THEN 1 ELSE 0)
    + Cardinality({c \in JsonColsOf(columns) : Contributes(c, n)})

AllNames == ColNames \cup {m[1] : m \in Members}

\* name, name_2, ..., name_k
Numbered(n, k) == [i \in 1..k |-> IF i = 1 THEN n ELSE n \o <<95>> \o str(i)]

\* the names of S in ascending ordinal order, each with its numbered repeats
RECURSIVE ExpectedFrom(_)
ExpectedFrom(S) ==
    IF S = {} THEN <<>>
    ELSE LET least == CHOOSE n \in S : \A m \in S \ {n} : StrLess(n, m)
         IN  Numbered(least, NameCount(least)) \o ExpectedFrom(S \ {least})

ExpectedFinal == ExpectedFrom({n \in AllNames : NameCount(n) > 0})

\* C1 (as written in the specification): in the dedup-rename pass the k-th
\* occurrence (k >= 2) of a name in the sorted combined sequence is emitted
\* as the name suffixed with _N where N = k - 1, the number of prior
\* occurrences, so the second occurrence gets _1.
C1_SuffixIsPriorCount ==
    Assembled =>
        \A i \in DOMAIN combined_columns :
            OccurrenceNo(combined_columns, i) >= 2 =>
                final_columns[i] =
                    combined_columns[i] \o <<95>> \o str(OccurrenceNo(combined_columns, i) - 1)

\* C1 (amended): the k-th occurrence (k >= 2) of a name in the sorted
\* combined sequence is emitted as the name suffixed with _k, the number
\* of occurrences up to and including it, so the second occurrence gets _2.
C1_SuffixIsOccurrenceNo ==
    Assembled =>
        \A i \in DOMAIN combined_columns :
            OccurrenceNo(combined_columns, i) >= 2 =>
                final_columns[i] =
                    combined_columns[i] \o <<95>> \o str(OccurrenceNo(combined_columns, i))

C1_Witness ==
    /\ Assembled
    /\ \E i \in DOMAIN combined_columns :
          /\ OccurrenceNo(combined_columns, i) = 3
          /\ final_columns[i] = combined_columns[i] \o <<95, 51>>

\* C2: no two entries of the final column list are the same string, also
\* when a declared or discovered name already looks like a suffixed name.
C2_FinalNamesDistinct ==
    Assembled =>
        \A i, j \in DOMAIN final_columns :
            final_columns[i] = final_columns[j] => i = j

\* C3: the first occurrence of every name in the sorted combined sequence
\* is emitted unchanged, repeated or not; exactly the second and later
\* occurrences are emitted with a suffix.
C3_FirstOccurrenceBare ==
    Assembled =>
        /\ Len(final_columns) = Len(combined_columns)
        /\ \A i \in DOMAIN combined_columns :
              IF OccurrenceNo(combined_columns, i) = 1
              THEN final_columns[i] = combined_columns[i]
              ELSE IsSuffixedForm(final_columns[i], combined_columns[i])

C3_Witness ==
    /\ Assembled
    /\ \E i, j \in DOMAIN combined_columns :
          /\ count(combined_columns, combined_columns[i]) = 1
          /\ final_columns[i] = combined_columns[i]
          /\ count(combined_columns, combined_columns[j]) > 1
          /\ OccurrenceNo(combined_columns, j) = 1
          /\ final_columns[j] = combined_columns[j]

\* every query of the run has returned and every sampled value has decoded
AllStepsSucceeded ==
    /\ Len(json_cols) = Cardinality(JsonColsOf(columns))
    /\ idx = Len(json_cols) + 1
    /\ \A c \in JsonColsOf(columns) : sample[c] = <<>> \/ decodes(sample[c][1])
    /\ Len(all_columns_in_table) = Cardinality(DOMAIN columns)

\* C4: a run that fails fatally (a catalog query, a sampling query or the
\* decoding of a sampled value) ends having printed nothing and with the
\* output file as it was before the run; the statement is printed and the
\* file written only after every query and every decoding has succeeded.
C4_FailureWritesNothing ==
    /\ pc = "failed" => (file = file_before /\ stdout = <<>>)
    /\ (stdout # <<>> \/ file # file_before \/ pc \in {"write", "done"}) => AllStepsSucceeded

C4_Witness ==
    /\ pc = "failed"
    /\ new_columns # <<>>
    /\ idx = 2
    /\ rows # <<>>
    /\ ~decodes(rows[1])
    /\ file = <<>>

\* C5: when a sampling query returns zero rows the column adds no field
\* name and the run does not fail: the loop moves on to the next column.
C5_EmptySampleSkipped ==
    [][(pc = "sampled" /\ rows = <<>>) =>
           (pc' = "loop" /\ idx' = idx + 1 /\ new_columns' = new_columns)]_vars

C5_Witness ==
    /\ pc = "done"
    /\ Len(json_cols) = 2
    /\ sample[json_cols[1]] = <<>>
    /\ sample[json_cols[2]] # <<>>
    /\ Len(new_columns) = 2
    /\ file = <<sql_string>>

\* s holds the elements of S in strictly ascending ordinal order
IsAscendingListOf(s, S) ==
    /\ Len(s) = Cardinality(S)
    /\ {s[i] : i \in DOMAIN s} = S
    /\ \A i \in 1..(Len(s) - 1) : StrLess(s[i], s[i + 1])

\* C6: for a table with no JSON column (declared names being distinct) no
\* sampling query is issued, the final column list is the declared names in
\* ascending order, none renamed, and the statement selects exactly them.
C6_NoJsonColumns ==
    JsonColsOf(columns) = {} =>
        /\ pc # "sampled"
        /\ Assembled =>
              /\ IsAscendingListOf(final_columns, DOMAIN columns)
              /\ WellFormedStatement(sql_string)
              /\ SelectListOf(sql_string) = final_columns

C6_Witness ==
    /\ JsonColsOf(columns) = {}
    /\ pc = "done"
    /\ Len(final_columns) = 3
    /\ all_columns_in_table # final_columns

\* C7: a column whose sampling query returns a (decodable) row adds exactly
\* the top-level keys of that row's value, each once; keys of nested
\* documents are not added.
C7_TopLevelKeysOnly ==
    [][(pc = "sampled" /\ rows # <<>> /\ decodes(rows[1])) =>
           LET added == SubSeq(new_columns', Len(new_columns) + 1, Len(new_columns'))
           IN  /\ pc' = "loop"
               /\ rows[1] = sample[json_cols[idx]][1]
               /\ Len(new_columns') >= Len(new_columns)
               /\ SubSeq(new_columns', 1, Len(new_columns)) = new_columns
               /\ {added[i] : i \in DOMAIN added} = TopLevelKeys(rows[1])
               /\ Len(added) = Cardinality(TopLevelKeys(rows[1]))]_vars

C7_Witness ==
    /\ pc = "loop"
    /\ idx = 2
    /\ rows # <<>>
    /\ decodes(rows[1])
    /\ Len(rows[1].members) = 2
    /\ rows[1].members[1][1] = rows[1].members[2][1]
    /\ rows[1].members[2][2].nested
    /\ Len(new_columns) = 1

\* C8: a run that completes leaves the file holding exactly the statement
\* it printed; run again against the unchanged table (whatever order the
\* catalog returns its rows in) it prints the same statement and leaves
\* the same file contents, overwritten, not appended to.
C8_RerunSameFile ==
    pc = "done" =>
        /\ file = <<sql_string>>
        /\ stdout[1] = sql_string
        /\ file_before # <<>> => file = file_before

C8_Witness ==
    /\ pc = "done"
    /\ run = 2
    /\ file_before # <<>>
    /\ Len(new_columns) >= 2
    /\ Len(all_columns_in_table) >= 2

\* C9: the final column list depends only on which names were declared and
\* discovered and how many times, not on the order the catalog rows, the
\* JSON columns or the keys of a document arrived in.
C9_OrderIndependent ==
    Assembled => final_columns = ExpectedFinal

C9_Witness ==
    /\ Assembled
    /\ Len(json_cols) = 2
    /\ StrLess(json_cols[2], json_cols[1])
    /\ Len(all_columns_in_table) = 3
    /\ StrLess(all_columns_in_table[3], all_columns_in_table[1])
    /\ Len(new_columns) >= 2
    /\ StrLess(new_columns[2], new_columns[1])

\* C10: the rename pass keeps length and position: one final entry per
\* declared column and discovered field, the i-th being the i-th sorted
\* name or that name followed by "_" and an integer; the statement is
\* "SELECT ", the final list joined in order with ", ", and " FROM " the
\* backtick-quoted project.dataset.table.
C10_LengthAndPosition ==
    Assembled =>
        /\ Len(final_columns) = Len(all_columns_in_table) + Len(new_columns)
        /\ Len(combined_columns) = Len(final_columns)
        /\ \A i \in DOMAIN final_columns :
              \/ final_columns[i] = combined_columns[i]
              \/ IsSuffixedForm(final_columns[i], combined_columns[i])
        /\ WellFormedStatement(sql_string)
        /\ SelectListOf(sql_string) = final_columns

C10_Witness ==
    /\ pc = "done"
    /\ Len(final_columns) = 5
    /\ \E i \in DOMAIN final_columns : final_columns[i] # combined_columns[i]

====
